---- MODULE Spec2Model ----
(***************************************************************************)
(* Model of crates/benches/browser-prover-wasm/pkg/worker.js: the Worker   *)
(* object exposed through Comlink (init, run), the engine calls it makes   *)
(* (init, init_logging, initThreadPool, wasm_main) and console.error.      *)
(* The engine is external: each of its calls either throws synchronously   *)
(* or returns a promise that the engine later fulfils or rejects.          *)
(* The top-level run() of lines 3-10 loads another engine module; it is    *)
(* modelled by the Boot actions and has its own specification, BootSpec.   *)
(***************************************************************************)
EXTENDS Integers, Sequences, FiniteSets, TLC

\* ---- bounds -------------------------------------------------------------
MaxCalls == 2          \* host calls issued on the exposed worker
MaxConcurrency == 3    \* largest navigator.hardwareConcurrency tried

\* ---- input domains ------------------------------------------------------
Calls == 1..MaxCalls
Errors == {"e1", "e2"}                 \* values an engine call may throw / reject with
Values == {"v1"}                       \* values an engine promise may fulfil with
Undefined == "undefined"
ArgLists == { <<"ip", "p1", "p2", "p3">>,
              <<"ip", "p1", "p2", "p3", "p4">>,
              <<"ip", "p1", "p2", "p3", "p4", "p5">> }

VARIABLES
  hardwareConcurrency, \* navigator.hardwareConcurrency
  issued,              \* number of calls the host has made through Comlink
  method,              \* method[c]: "none" | "init" | "run"
  hostArgs,            \* hostArgs[c]: the argument list the host passed
  pc,                  \* pc[c]: where the async function body of call c stands
  awaited,             \* awaited[c]: the latest engine call of c and its state
  engineLog,           \* engineLog[c]: engine calls made by c, in order
  outcome,             \* outcome[c]: state and value of the promise returned to the host
  console,             \* values passed to console.error, in order
  threadPools,         \* thread pools the engine has started and acknowledged
  bootPc,              \* where the body of the top-level run() stands
  bootAwaited,         \* the latest engine call of the top-level run() and its state
  bootLog,             \* engine calls made by the top-level run(), in order
  bootOutcome,         \* state and value of the promise the top-level run() returned
  unhandled            \* rejection reasons the host reported as unhandled

bootVars == <<bootPc, bootAwaited, bootLog, bootOutcome, unhandled>>

workerVars == <<issued, method, hostArgs, pc, awaited, engineLog, outcome, threadPools>>

vars == <<hardwareConcurrency, issued, method, hostArgs, pc, awaited,
          engineLog, outcome, console, threadPools, bootVars>>

NoCall == [op |-> "none", st |-> "none", val |-> Undefined]
Pending == [st |-> "pending", val |-> Undefined]

\* the argument object built on lines 19-23
obj == [level |-> "Trace", crate_filters |-> Undefined, span_events |-> Undefined]

\* PoolSize with one thread kept back
PoolSizeLessOne == hardwareConcurrency - 1

\* the thread count passed to initThreadPool
PoolSize == hardwareConcurrency

\* number of formal parameters of Worker.run (lines 35-39)
RunArity == 5

\* BindRun with wasm_to_server_port and wasm_to_verifier_port exchanged
BindRunSwapped(a) ==
  [i \in 1..5 |->
     IF i = 3 THEN (IF 4 <= Len(a) THEN a[4] ELSE Undefined)
     ELSE IF i = 4 THEN (IF 3 <= Len(a) THEN a[3] ELSE Undefined)
     ELSE IF i <= Len(a) THEN a[i] ELSE Undefined]

\* binding of an argument list to the formal parameters of run:
\* missing arguments are undefined, extra ones are not bound
BindRun(a) == [i \in 1..RunArity |-> IF i <= Len(a) THEN a[i] ELSE Undefined]

Init ==
  /\ hardwareConcurrency \in 1..MaxConcurrency
  /\ issued = 0
  /\ method = [c \in Calls |-> "none"]
  /\ hostArgs = [c \in Calls |-> << >>]
  /\ pc = [c \in Calls |-> "idle"]
  /\ awaited = [c \in Calls |-> NoCall]
  /\ engineLog = [c \in Calls |-> << >>]
  /\ outcome = [c \in Calls |-> [st |-> "none", val |-> Undefined]]
  /\ console = << >>
  /\ threadPools = 0
  /\ bootPc = "start"
  /\ bootAwaited = NoCall
  /\ bootLog = << >>
  /\ bootOutcome = [st |-> "none", val |-> Undefined]
  /\ unhandled = << >>

\* ---- helpers for the effects of one step of call c ----------------------
\* c invokes engine function op with arguments a
Invoke(log, op, a) == Append(log, [op |-> op, args |-> a])

\* InitCatch that throws a new error in place of e
InitCatchWrapped(c, e) ==
  /\ console' = Append(console, e)
  /\ outcome' = [outcome EXCEPT ![c] = [st |-> "rejected", val |-> "InitializationError"]]
  /\ pc' = [pc EXCEPT ![c] = "done"]
  /\ UNCHANGED threadPools

\* catch (e) { console.error(e); throw e; } of Worker.init
InitCatch(c, e) ==
  /\ console' = Append(console, e)
  /\ outcome' = [outcome EXCEPT ![c] = [st |-> "rejected", val |-> e]]
  /\ pc' = [pc EXCEPT ![c] = "done"]
  /\ UNCHANGED threadPools

\* RunCatch without the console.error
RunCatchSilent(c, e) ==
  /\ console' = console
  /\ outcome' = [outcome EXCEPT ![c] = [st |-> "rejected", val |-> e]]
  /\ pc' = [pc EXCEPT ![c] = "done"]
  /\ UNCHANGED threadPools

\* RunCatch that also tears the thread pool down
RunCatchTeardown(c, e) ==
  /\ console' = Append(console, e)
  /\ outcome' = [outcome EXCEPT ![c] = [st |-> "rejected", val |-> e]]
  /\ pc' = [pc EXCEPT ![c] = "done"]
  /\ threadPools' = 0

\* catch (e) { console.error(e); throw e; } of Worker.run
RunCatch(c, e) ==
  /\ console' = Append(console, e)
  /\ outcome' = [outcome EXCEPT ![c] = [st |-> "rejected", val |-> e]]
  /\ pc' = [pc EXCEPT ![c] = "done"]
  /\ UNCHANGED threadPools

\* the host issues the next call
Issue(c, m, a) ==
  /\ c = issued + 1
  /\ pc[c] = "idle"
  /\ issued' = c
  /\ method' = [method EXCEPT ![c] = m]
  /\ hostArgs' = [hostArgs EXCEPT ![c] = a]
  /\ UNCHANGED <<hardwareConcurrency, bootVars>>

\* ---- Worker.init --------------------------------------------------------
\* init() up to `await init()`: the module loader returns a promise
InitCallAwaitsLoad(c) ==
  /\ Issue(c, "init", << >>)
  /\ engineLog' = [engineLog EXCEPT ![c] = Invoke(@, "init", << >>)]
  /\ awaited' = [awaited EXCEPT ![c] = [op |-> "init"] @@ Pending]
  /\ pc' = [pc EXCEPT ![c] = "awaitLoad"]
  /\ outcome' = [outcome EXCEPT ![c] = [st |-> "pending", val |-> Undefined]]
  /\ UNCHANGED <<console, threadPools>>

\* init() where the module loader throws synchronously
InitCallLoadThrows(c, e) ==
  /\ Issue(c, "init", << >>)
  /\ engineLog' = [engineLog EXCEPT ![c] = Invoke(@, "init", << >>)]
  /\ awaited' = [awaited EXCEPT ![c] = [op |-> "init", st |-> "threw", val |-> e]]
  /\ InitCatch(c, e)

\* the awaited module load was rejected: catch block
InitLoadRejected(c) ==
  /\ pc[c] = "awaitLoad"
  /\ awaited[c].st = "rejected"
  /\ InitCatch(c, awaited[c].val)
  /\ UNCHANGED <<hardwareConcurrency, issued, method, hostArgs, awaited, engineLog>>
  /\ UNCHANGED bootVars

\* the module is loaded; init_logging(obj) throws
InitLoggingThrows(c, e) ==
  /\ pc[c] = "awaitLoad"
  /\ awaited[c].st = "fulfilled"
  /\ engineLog' = [engineLog EXCEPT ![c] = Invoke(@, "init_logging", <<obj>>)]
  /\ awaited' = [awaited EXCEPT ![c] = [op |-> "init_logging", st |-> "threw", val |-> e]]
  /\ InitCatch(c, e)
  /\ UNCHANGED <<hardwareConcurrency, issued, method, hostArgs>>
  /\ UNCHANGED bootVars

\* InitPoolThrows with the pool start ahead of the logging install
InitPoolThrowsFirst(c, e) ==
  /\ pc[c] = "awaitLoad"
  /\ awaited[c].st = "fulfilled"
  /\ engineLog' = [engineLog EXCEPT ![c] = Invoke(@, "initThreadPool", <<PoolSize>>)]
  /\ awaited' = [awaited EXCEPT ![c] = [op |-> "initThreadPool", st |-> "threw", val |-> e]]
  /\ InitCatch(c, e)
  /\ UNCHANGED <<hardwareConcurrency, issued, method, hostArgs>>
  /\ UNCHANGED bootVars

\* the module is loaded; init_logging(obj) returns; initThreadPool throws
InitPoolThrows(c, e) ==
  /\ pc[c] = "awaitLoad"
  /\ awaited[c].st = "fulfilled"
  /\ engineLog' = [engineLog EXCEPT ![c] =
        Invoke(Invoke(@, "init_logging", <<obj>>),
               "initThreadPool", <<PoolSize>>)]
  /\ awaited' = [awaited EXCEPT ![c] = [op |-> "initThreadPool", st |-> "threw", val |-> e]]
  /\ InitCatch(c, e)
  /\ UNCHANGED <<hardwareConcurrency, issued, method, hostArgs>>
  /\ UNCHANGED bootVars

\* InitAwaitsPool without the await: the body ends while the pool start is pending
InitAwaitsPoolNoAwait(c) ==
  /\ pc[c] = "awaitLoad"
  /\ awaited[c].st = "fulfilled"
  /\ engineLog' = [engineLog EXCEPT ![c] =
        Invoke(Invoke(@, "init_logging", <<obj>>),
               "initThreadPool", <<PoolSize>>)]
  /\ awaited' = [awaited EXCEPT ![c] = [op |-> "initThreadPool"] @@ Pending]
  /\ outcome' = [outcome EXCEPT ![c] = [st |-> "resolved", val |-> Undefined]]
  /\ pc' = [pc EXCEPT ![c] = "done"]
  /\ UNCHANGED <<hardwareConcurrency, issued, method, hostArgs, console, threadPools>>
  /\ UNCHANGED bootVars

\* the module is loaded; init_logging(obj) returns; initThreadPool returns a promise
InitAwaitsPool(c) ==
  /\ pc[c] = "awaitLoad"
  /\ awaited[c].st = "fulfilled"
  /\ engineLog' = [engineLog EXCEPT ![c] =
        Invoke(Invoke(@, "init_logging", <<obj>>),
               "initThreadPool", <<PoolSize>>)]
  /\ awaited' = [awaited EXCEPT ![c] = [op |-> "initThreadPool"] @@ Pending]
  /\ pc' = [pc EXCEPT ![c] = "awaitPool"]
  /\ UNCHANGED <<hardwareConcurrency, issued, method, hostArgs, outcome, console, threadPools>>
  /\ UNCHANGED bootVars

\* the awaited pool start was rejected: catch block
InitPoolRejected(c) ==
  /\ pc[c] = "awaitPool"
  /\ awaited[c].st = "rejected"
  /\ InitCatch(c, awaited[c].val)
  /\ UNCHANGED <<hardwareConcurrency, issued, method, hostArgs, awaited, engineLog>>
  /\ UNCHANGED bootVars

\* the awaited pool start was fulfilled: the body ends, init() resolves with undefined
InitReturns(c) ==
  /\ pc[c] = "awaitPool"
  /\ awaited[c].st = "fulfilled"
  /\ outcome' = [outcome EXCEPT ![c] = [st |-> "resolved", val |-> Undefined]]
  /\ pc' = [pc EXCEPT ![c] = "done"]
  /\ UNCHANGED <<hardwareConcurrency, issued, method, hostArgs, awaited, engineLog,
                 console, threadPools>>
  /\ UNCHANGED bootVars

\* ---- Worker.run ---------------------------------------------------------
\* RunCallAwaitsMain that starts a thread pool before the session
RunCallAwaitsMainLazyInit(c, a) ==
  /\ Issue(c, "run", a)
  /\ engineLog' = [engineLog EXCEPT ![c] =
        Invoke(Invoke(@, "initThreadPool", <<PoolSize>>), "wasm_main", BindRun(a))]
  /\ awaited' = [awaited EXCEPT ![c] = [op |-> "wasm_main"] @@ Pending]
  /\ pc' = [pc EXCEPT ![c] = "awaitMain"]
  /\ outcome' = [outcome EXCEPT ![c] = [st |-> "pending", val |-> Undefined]]
  /\ UNCHANGED <<console, threadPools>>

\* run(...) up to `await wasm_main(...)`: the entry point returns a promise
RunCallAwaitsMain(c, a) ==
  /\ Issue(c, "run", a)
  /\ engineLog' = [engineLog EXCEPT ![c] = Invoke(@, "wasm_main", BindRun(a))]
  /\ awaited' = [awaited EXCEPT ![c] = [op |-> "wasm_main"] @@ Pending]
  /\ pc' = [pc EXCEPT ![c] = "awaitMain"]
  /\ outcome' = [outcome EXCEPT ![c] = [st |-> "pending", val |-> Undefined]]
  /\ UNCHANGED <<console, threadPools>>

\* run(...) where wasm_main throws synchronously
RunCallMainThrows(c, a, e) ==
  /\ Issue(c, "run", a)
  /\ engineLog' = [engineLog EXCEPT ![c] = Invoke(@, "wasm_main", BindRun(a))]
  /\ awaited' = [awaited EXCEPT ![c] = [op |-> "wasm_main", st |-> "threw", val |-> e]]
  /\ RunCatch(c, e)

\* RunMainRejected that calls wasm_main again in place of rethrowing
RunMainRejectedRetries(c) ==
  /\ pc[c] = "awaitMain"
  /\ awaited[c].st = "rejected"
  /\ engineLog' = [engineLog EXCEPT ![c] = Invoke(@, "wasm_main", BindRun(hostArgs[c]))]
  /\ awaited' = [awaited EXCEPT ![c] = [op |-> "wasm_main"] @@ Pending]
  /\ UNCHANGED <<hardwareConcurrency, issued, method, hostArgs, pc, outcome, console,
                 threadPools>>
  /\ UNCHANGED bootVars

\* the awaited session was rejected: catch block
RunMainRejected(c) ==
  /\ pc[c] = "awaitMain"
  /\ awaited[c].st = "rejected"
  /\ RunCatch(c, awaited[c].val)
  /\ UNCHANGED <<hardwareConcurrency, issued, method, hostArgs, awaited, engineLog>>
  /\ UNCHANGED bootVars

\* the awaited session was fulfilled: the body ends without a return statement
RunReturns(c) ==
  /\ pc[c] = "awaitMain"
  /\ awaited[c].st = "fulfilled"
  /\ outcome' = [outcome EXCEPT ![c] = [st |-> "resolved", val |-> Undefined]]
  /\ pc' = [pc EXCEPT ![c] = "done"]
  /\ UNCHANGED <<hardwareConcurrency, issued, method, hostArgs, awaited, engineLog,
                 console, threadPools>>
  /\ UNCHANGED bootVars

\* ---- the engine settles a promise it returned ---------------------------
EngineFulfils(c, v) ==
  /\ awaited[c].st = "pending"
  /\ awaited' = [awaited EXCEPT ![c] = [@ EXCEPT !.st = "fulfilled", !.val = v]]
  /\ threadPools' = IF awaited[c].op = "initThreadPool" THEN threadPools + 1 ELSE threadPools
  /\ UNCHANGED <<hardwareConcurrency, issued, method, hostArgs, pc, engineLog, outcome, console>>
  /\ UNCHANGED bootVars

EngineRejects(c, e) ==
  /\ awaited[c].st = "pending"
  /\ awaited' = [awaited EXCEPT ![c] = [@ EXCEPT !.st = "rejected", !.val = e]]
  /\ UNCHANGED <<hardwareConcurrency, issued, method, hostArgs, pc, engineLog, outcome,
                 console, threadPools>>
  /\ UNCHANGED bootVars

Next ==
  \/ \E c \in Calls : InitCallAwaitsLoad(c)
  \/ \E c \in Calls, e \in Errors : InitCallLoadThrows(c, e)
  \/ \E c \in Calls : InitLoadRejected(c)
  \/ \E c \in Calls, e \in Errors : InitLoggingThrows(c, e)
  \/ \E c \in Calls, e \in Errors : InitPoolThrows(c, e)
  \/ \E c \in Calls : InitAwaitsPool(c)
  \/ \E c \in Calls : InitPoolRejected(c)
  \/ \E c \in Calls : InitReturns(c)
  \/ \E c \in Calls, a \in ArgLists : RunCallAwaitsMain(c, a)
  \/ \E c \in Calls, a \in ArgLists, e \in Errors : RunCallMainThrows(c, a, e)
  \/ \E c \in Calls : RunMainRejected(c)
  \/ \E c \in Calls : RunReturns(c)
  \/ \E c \in Calls, v \in Values : EngineFulfils(c, v)
  \/ \E c \in Calls, e \in Errors : EngineRejects(c, e)

Spec == Init /\ [][Next]_vars

\* the engine concludes every call it was given, and the event loop resumes
\* every async function whose awaited promise has settled
EngineSettles(c) ==
  \/ \E v \in Values : EngineFulfils(c, v)
  \/ \E e \in Errors : EngineRejects(c, e)

Resume(c) ==
  \/ InitLoadRejected(c)
  \/ \E e \in Errors : InitLoggingThrows(c, e)
  \/ \E e \in Errors : InitPoolThrows(c, e)
  \/ InitAwaitsPool(c)
  \/ InitPoolRejected(c)
  \/ InitReturns(c)
  \/ RunMainRejected(c)
  \/ RunReturns(c)

FairSpec ==
  Spec /\ \A c \in Calls : WF_vars(EngineSettles(c)) /\ WF_vars(Resume(c))

\* ---- the top-level run() of lines 3-10 ---------------------------------
\* BootThrow with the catch block of Worker.init around the body
BootThrowLogged(e) ==
  /\ bootOutcome' = [st |-> "rejected", val |-> e]
  /\ bootPc' = "done"
  /\ console' = Append(console, e)
  /\ UNCHANGED unhandled

\* an exception leaves the body of run(): there is no try, the promise is
\* rejected with it and nothing is logged
BootThrow(e) ==
  /\ bootOutcome' = [st |-> "rejected", val |-> e]
  /\ bootPc' = "done"
  /\ UNCHANGED <<console, unhandled>>

\* run() on line 10, up to `await init()`: the module loader returns a promise
BootCallAwaitsLoad ==
  /\ bootPc = "start"
  /\ bootLog' = Invoke(bootLog, "init", << >>)
  /\ bootAwaited' = [op |-> "init"] @@ Pending
  /\ bootPc' = "awaitLoad"
  /\ bootOutcome' = [st |-> "pending", val |-> Undefined]
  /\ UNCHANGED <<hardwareConcurrency, workerVars, console, unhandled>>

\* run() on line 10 where the module loader throws synchronously
BootCallLoadThrows(e) ==
  /\ bootPc = "start"
  /\ bootLog' = Invoke(bootLog, "init", << >>)
  /\ bootAwaited' = [op |-> "init", st |-> "threw", val |-> e]
  /\ BootThrow(e)
  /\ UNCHANGED <<hardwareConcurrency, workerVars>>

\* the awaited module load was rejected
BootLoadRejected ==
  /\ bootPc = "awaitLoad"
  /\ bootAwaited.st = "rejected"
  /\ BootThrow(bootAwaited.val)
  /\ UNCHANGED <<hardwareConcurrency, workerVars, bootAwaited, bootLog>>

\* the module is loaded; initThreadPool throws
BootPoolThrows(e) ==
  /\ bootPc = "awaitLoad"
  /\ bootAwaited.st = "fulfilled"
  /\ bootLog' = Invoke(bootLog, "initThreadPool", <<PoolSize>>)
  /\ bootAwaited' = [op |-> "initThreadPool", st |-> "threw", val |-> e]
  /\ BootThrow(e)
  /\ UNCHANGED <<hardwareConcurrency, workerVars>>

\* BootAwaitsPool without the await: wasm_start is called while the pool start is pending
BootAwaitsPoolNoAwait ==
  /\ bootPc = "awaitLoad"
  /\ bootAwaited.st = "fulfilled"
  /\ bootLog' = Invoke(Invoke(bootLog, "initThreadPool", <<PoolSize>>), "wasm_start", << >>)
  /\ bootAwaited' = [op |-> "wasm_start"] @@ Pending
  /\ bootPc' = "awaitStart"
  /\ UNCHANGED <<hardwareConcurrency, workerVars, console, bootOutcome, unhandled>>

\* the module is loaded; initThreadPool returns a promise
BootAwaitsPool ==
  /\ bootPc = "awaitLoad"
  /\ bootAwaited.st = "fulfilled"
  /\ bootLog' = Invoke(bootLog, "initThreadPool", <<PoolSize>>)
  /\ bootAwaited' = [op |-> "initThreadPool"] @@ Pending
  /\ bootPc' = "awaitPool"
  /\ UNCHANGED <<hardwareConcurrency, workerVars, console, bootOutcome, unhandled>>

\* the awaited pool start was rejected
BootPoolRejected ==
  /\ bootPc = "awaitPool"
  /\ bootAwaited.st = "rejected"
  /\ BootThrow(bootAwaited.val)
  /\ UNCHANGED <<hardwareConcurrency, workerVars, bootAwaited, bootLog>>

\* the pool is started; wasm_start throws
BootStartThrows(e) ==
  /\ bootPc = "awaitPool"
  /\ bootAwaited.st = "fulfilled"
  /\ bootLog' = Invoke(bootLog, "wasm_start", << >>)
  /\ bootAwaited' = [op |-> "wasm_start", st |-> "threw", val |-> e]
  /\ BootThrow(e)
  /\ UNCHANGED <<hardwareConcurrency, workerVars>>

\* the pool is started; wasm_start returns a promise
BootAwaitsStart ==
  /\ bootPc = "awaitPool"
  /\ bootAwaited.st = "fulfilled"
  /\ bootLog' = Invoke(bootLog, "wasm_start", << >>)
  /\ bootAwaited' = [op |-> "wasm_start"] @@ Pending
  /\ bootPc' = "awaitStart"
  /\ UNCHANGED <<hardwareConcurrency, workerVars, console, bootOutcome, unhandled>>

\* the awaited wasm_start was rejected
BootStartRejected ==
  /\ bootPc = "awaitStart"
  /\ bootAwaited.st = "rejected"
  /\ BootThrow(bootAwaited.val)
  /\ UNCHANGED <<hardwareConcurrency, workerVars, bootAwaited, bootLog>>

\* the awaited wasm_start was fulfilled: the body ends, the promise resolves
BootReturns ==
  /\ bootPc = "awaitStart"
  /\ bootAwaited.st = "fulfilled"
  /\ bootOutcome' = [st |-> "resolved", val |-> Undefined]
  /\ bootPc' = "done"
  /\ UNCHANGED <<hardwareConcurrency, workerVars, console, bootAwaited, bootLog, unhandled>>

\* line 10 attaches no handler to the promise: the host reports its rejection
BootUnhandledRejection ==
  /\ bootOutcome.st = "rejected"
  /\ unhandled = << >>
  /\ unhandled' = <<bootOutcome.val>>
  /\ UNCHANGED <<hardwareConcurrency, workerVars, console, bootPc, bootAwaited,
                 bootLog, bootOutcome>>

\* the engine settles a promise it returned to the top-level run()
BootEngineFulfils(v) ==
  /\ bootAwaited.st = "pending"
  /\ bootAwaited' = [bootAwaited EXCEPT !.st = "fulfilled", !.val = v]
  /\ UNCHANGED <<hardwareConcurrency, workerVars, console, bootPc, bootLog,
                 bootOutcome, unhandled>>

BootEngineRejects(e) ==
  /\ bootAwaited.st = "pending"
  /\ bootAwaited' = [bootAwaited EXCEPT !.st = "rejected", !.val = e]
  /\ UNCHANGED <<hardwareConcurrency, workerVars, console, bootPc, bootLog,
                 bootOutcome, unhandled>>

BootNext ==
  \/ BootCallAwaitsLoad
  \/ \E e \in Errors : BootCallLoadThrows(e)
  \/ BootLoadRejected
  \/ \E e \in Errors : BootPoolThrows(e)
  \/ BootAwaitsPool
  \/ BootPoolRejected
  \/ \E e \in Errors : BootStartThrows(e)
  \/ BootAwaitsStart
  \/ BootStartRejected
  \/ BootReturns
  \/ BootUnhandledRejection
  \/ \E v \in Values : BootEngineFulfils(v)
  \/ \E e \in Errors : BootEngineRejects(e)

BootSpec == Init /\ [][BootNext]_vars

\* the engine concludes its calls, the event loop resumes run() and reports
\* unhandled rejections
FairBootSpec == BootSpec /\ WF_vars(BootNext)

\* ---- vocabulary of the properties ----------------------------------------
Settled(c) == outcome[c].st \in {"resolved", "rejected"}

\* positions of engineLog[c] at which c invoked op
InvocationsOf(c, op) ==
  {i \in 1..Len(engineLog[c]) : engineLog[c][i].op = op}

\* (call, position) pairs at which initThreadPool was invoked
PoolStarts ==
  UNION { {<<c, i>> : i \in InvocationsOf(c, "initThreadPool")} : c \in Calls }

\* some init() call has resolved
InitCompleted == \E c \in Calls : method[c] = "init" /\ outcome[c].st = "resolved"

\* some init() call has rejected
InitFailed == \E c \in Calls : method[c] = "init" /\ outcome[c].st = "rejected"

\* run() calls that are inside wasm_main and have not settled
ActiveSessions ==
  {c \in Calls : /\ method[c] = "run"
                 /\ InvocationsOf(c, "wasm_main") # {}
                 /\ ~Settled(c)}

\* call c is issued in this step
IssuedNow(c) == method[c] = "none" /\ method'[c] # "none"

\* ---- C1 ------------------------------------------------------------------
\* C1: a run() issued while no init() has completed successfully fails at
\* once and does not call wasm_main.
C1_RunBeforeInitFails ==
  [][\A c \in Calls :
       (IssuedNow(c) /\ method'[c] = "run" /\ ~InitCompleted)
         => /\ InvocationsOf(c, "wasm_main")' = {}
            /\ outcome'[c].st = "rejected"]_vars

\* ---- C2 ------------------------------------------------------------------
\* C2: over all init() calls of the worker, initThreadPool is invoked at
\* most once.
C2_ThreadPoolStartedOnce == Cardinality(PoolStarts) <= 1

\* ---- C3 ------------------------------------------------------------------
\* C3: at most one run() call is inside wasm_main and not yet settled.
C3_AtMostOneActiveSession == Cardinality(ActiveSessions) <= 1

C5_RunResolvesWithSessionValue ==
  \A c \in Calls :
    (method[c] = "run" /\ awaited[c].st = "fulfilled" /\ Settled(c))
      => outcome[c] = [st |-> "resolved", val |-> awaited[c].val]

\* ---- C6 ------------------------------------------------------------------
\* C6: a call whose engine call threw or was rejected with e rejects with
\* that same e once its body has run on, and a call resolves only when its
\* last engine call was fulfilled.
C6_EngineErrorsPropagateVerbatim ==
  \A c \in Calls :
    /\ (awaited[c].st = "threw" \/ (awaited[c].st = "rejected" /\ pc[c] = "done"))
         => outcome[c] = [st |-> "rejected", val |-> awaited[c].val]
    /\ outcome[c].st = "resolved" => awaited[c].st = "fulfilled"
    /\ outcome[c].st = "rejected" => awaited[c].st \in {"threw", "rejected"}

\* an init() call and a run() call have both rejected after an engine failure
C6_Witness ==
  \E c, d \in Calls :
    /\ method[c] = "init" /\ outcome[c].st = "rejected"
    /\ awaited[c].op = "initThreadPool" /\ awaited[c].st = "rejected"
    /\ method[d] = "run" /\ outcome[d].st = "rejected"
    /\ awaited[d].st = "rejected"

\* ---- C7 ------------------------------------------------------------------
\* C7: once an init() call has failed, every call issued afterwards fails
\* without reaching the engine, and the worker never becomes Ready.
C7_FailedInitIsPermanent ==
  [][InitFailed =>
       /\ \A c \in Calls : IssuedNow(c) =>
            (engineLog'[c] = << >> /\ outcome'[c].st = "rejected")
       /\ (~InitCompleted => ~InitCompleted')]_vars

\* ---- C8 ------------------------------------------------------------------
\* C8: a step in which a run() call rejects while the worker is Ready
\* leaves the worker Ready, starts and removes no thread pool, and changes
\* nothing of any other call.
C8_FailedRunKeepsRuntimeState ==
  [][\A c \in Calls :
       (InitCompleted /\ method'[c] = "run"
          /\ outcome[c].st # "rejected" /\ outcome'[c].st = "rejected")
         => /\ InitCompleted'
            /\ threadPools' = threadPools
            /\ PoolStarts' = PoolStarts
            /\ hardwareConcurrency' = hardwareConcurrency
            /\ \A d \in Calls \ {c} :
                 /\ pc'[d] = pc[d]
                 /\ awaited'[d] = awaited[d]
                 /\ engineLog'[d] = engineLog[d]
                 /\ outcome'[d] = outcome[d]]_vars

\* init() has resolved, its pool runs, and a run() call has rejected
C8_Witness ==
  \E c, d \in Calls :
    /\ c < d
    /\ method[c] = "init" /\ outcome[c].st = "resolved"
    /\ threadPools = 1
    /\ method[d] = "run" /\ outcome[d].st = "rejected"

\* ---- C10 -----------------------------------------------------------------
\* C10: every issued call holds a promise; once settled its outcome never
\* changes; it is never settled while the engine call it awaits is
\* pending; and, the engine concluding its calls, it is eventually settled.
C10_EveryCallSettlesOnce ==
  /\ [](\A c \in Calls :
          method[c] # "none" => outcome[c].st \in {"pending", "resolved", "rejected"})
  /\ [][\A c \in Calls : Settled(c) => outcome'[c] = outcome[c]]_vars
  /\ [](\A c \in Calls : Settled(c) => awaited[c].st # "pending")
  /\ \A c \in Calls : (method[c] # "none") ~> Settled(c)

\* one call has resolved and another has rejected, each after its awaited
\* engine promise settled
C10_Witness ==
  \E c, d \in Calls :
    /\ outcome[c].st = "resolved" /\ awaited[c].st = "fulfilled"
    /\ outcome[d].st = "rejected" /\ awaited[d].st = "rejected"

\* ---- vocabulary of the later properties -----------------------------------
\* the engine functions named by a log, in order
Ops(log) == [i \in 1..Len(log) |-> log[i].op]

\* positions of a log at which op was invoked
InvocationsIn(log, op) == {i \in 1..Len(log) : log[i].op = op}

\* the calls that have rejected
RejectedCalls == {c \in Calls : outcome[c].st = "rejected"}

\* call c rejects in this step
RejectsNow(c) == outcome[c].st # "rejected" /\ outcome'[c].st = "rejected"

\* the steps of Worker.init (lines 18, 26, 27) and of the top-level run() (lines 4, 6, 7)
InitOrder == <<"init", "init_logging", "initThreadPool">>
BootOrder == <<"init", "initThreadPool", "wasm_start">>

\* ---- C11 -----------------------------------------------------------------
\* C11: the step in which a call rejects appends exactly the error its
\* engine call raised to the console, so the entry is there when the call
\* is rejected; the console changes in no other step, and it holds as many
\* entries as there are rejected calls.
C11_FailuresLoggedOnce ==
  /\ [](Len(console) = Cardinality(RejectedCalls))
  /\ [][\A c \in Calls : RejectsNow(c) =>
          /\ console' = Append(console, awaited'[c].val)
          /\ outcome'[c].val = awaited'[c].val]_vars
  /\ [][console' # console => \E c \in Calls : RejectsNow(c)]_vars

\* one call has rejected and was logged, another has resolved and was not
C11_Witness ==
  \E c, d \in Calls :
    /\ outcome[c].st = "rejected" /\ awaited[c].st = "rejected"
    /\ outcome[d].st = "resolved"
    /\ console = <<outcome[c].val>>

\* ---- C12 -----------------------------------------------------------------
\* C12: an init() call invokes init, init_logging, initThreadPool in that
\* order; the logging install begins only when the module load was
\* fulfilled; after an engine call of it has failed it invokes nothing
\* more; and it resolves only when the pool start was fulfilled.
C12_InitStepsInOrder ==
  /\ [](\A c \in Calls : method[c] = "init" =>
          /\ Len(engineLog[c]) <= 3
          /\ Ops(engineLog[c]) = SubSeq(InitOrder, 1, Len(engineLog[c]))
          /\ (awaited[c].op = "init" => Len(engineLog[c]) = 1)
          /\ (awaited[c].op = "init_logging" => Len(engineLog[c]) = 2)
          /\ (outcome[c].st = "resolved" =>
                /\ awaited[c].op = "initThreadPool"
                /\ awaited[c].st = "fulfilled"
                /\ Len(engineLog[c]) = 3))
  /\ [][\A c \in Calls :
          (method[c] = "init" /\ engineLog'[c] # engineLog[c])
            => (awaited[c].op = "init" /\ awaited[c].st = "fulfilled")]_vars
  /\ [][\A c \in Calls :
          (method[c] = "init" /\ awaited[c].st \in {"threw", "rejected"})
            => engineLog'[c] = engineLog[c]]_vars

\* one init() call has resolved after all three steps, another has stopped
\* at a failed logging install
C12_Witness ==
  \E c, d \in Calls :
    /\ method[c] = "init" /\ outcome[c].st = "resolved" /\ Len(engineLog[c]) = 3
    /\ method[d] = "init" /\ awaited[d].op = "init_logging" /\ outcome[d].st = "rejected"

\* ---- C13 -----------------------------------------------------------------
\* C13: no call invokes the same engine function twice.
C13_NoLocalRetry ==
  \A c \in Calls :
    /\ \A op \in {"init", "init_logging", "initThreadPool", "wasm_main"} :
         Cardinality(InvocationsOf(c, op)) <= 1
    /\ method[c] = "run" => Len(engineLog[c]) <= 1

\* a run() call and an init() call have both rejected after a rejected engine promise
C13_Witness ==
  \E c, d \in Calls :
    /\ method[c] = "run" /\ outcome[c].st = "rejected" /\ awaited[c].st = "rejected"
    /\ method[d] = "init" /\ outcome[d].st = "rejected" /\ awaited[d].st = "rejected"
    /\ awaited[d].op = "init"

\* ---- C14 -----------------------------------------------------------------
\* C14: every initThreadPool invocation of the worker carries exactly one
\* argument, navigator.hardwareConcurrency.
C14_PoolSizedToHardwareConcurrency ==
  \A c \in Calls : \A i \in InvocationsOf(c, "initThreadPool") :
    engineLog[c][i].args = <<hardwareConcurrency>>

\* an init() call has resolved on a host with more than one hardware thread
C14_Witness ==
  \E c \in Calls :
    /\ method[c] = "init" /\ outcome[c].st = "resolved"
    /\ threadPools >= 1
    /\ hardwareConcurrency > 1

\* ---- C15 -----------------------------------------------------------------
\* C15: a run() call invokes nothing but wasm_main, and no step of a run()
\* call changes the thread pools requested or started.
C15_RunNeverInitializes ==
  /\ [](\A c \in Calls : method[c] = "run" =>
          \A i \in 1..Len(engineLog[c]) : engineLog[c][i].op = "wasm_main")
  /\ [][\A c \in Calls :
          (method'[c] = "run" /\ (method[c] # "run" \/ pc'[c] # pc[c]
                                   \/ awaited'[c] # awaited[c]))
            => (PoolStarts' = PoolStarts /\ threadPools' = threadPools)]_vars

\* with no pool started, one run() call has resolved and another has rejected
C15_Witness ==
  \E c, d \in Calls :
    /\ method[c] = "run" /\ outcome[c].st = "resolved"
    /\ method[d] = "run" /\ outcome[d].st = "rejected"
    /\ threadPools = 0 /\ PoolStarts = {}

\* ---- C16 -----------------------------------------------------------------
\* C16: the top-level run() invokes init, initThreadPool, wasm_start in
\* that order and each at most once; initThreadPool only when the module
\* load was fulfilled, wasm_start only when the pool start was fulfilled;
\* after a failed engine call it invokes nothing more.
C16_BootStartsAfterLoadAndPool ==
  /\ [](/\ Len(bootLog) <= 3
        /\ Ops(bootLog) = SubSeq(BootOrder, 1, Len(bootLog)))
  /\ [][(InvocationsIn(bootLog, "wasm_start") = {}
           /\ InvocationsIn(bootLog', "wasm_start") # {})
          => (bootAwaited.op = "initThreadPool" /\ bootAwaited.st = "fulfilled")]_vars
  /\ [][(InvocationsIn(bootLog, "initThreadPool") = {}
           /\ InvocationsIn(bootLog', "initThreadPool") # {})
          => (bootAwaited.op = "init" /\ bootAwaited.st = "fulfilled")]_vars
  /\ [][bootAwaited.st \in {"threw", "rejected"} => bootLog' = bootLog]_vars

\* the top-level run() has called wasm_start and resolved
C16_Witness ==
  /\ Len(bootLog) = 3
  /\ bootAwaited.op = "wasm_start"
  /\ bootOutcome.st = "resolved"

\* ---- C17 -----------------------------------------------------------------
\* C17: the top-level run() logs nothing; when an engine call of it fails
\* its promise rejects with that error; it invokes no engine function
\* twice; and the rejection is reported as unhandled, with that error.
C17_BootFailureUnhandled ==
  /\ [](console = << >>)
  /\ []((bootAwaited.st = "threw" \/ (bootAwaited.st = "rejected" /\ bootPc = "done"))
          => bootOutcome = [st |-> "rejected", val |-> bootAwaited.val])
  /\ [](bootOutcome.st = "rejected" => bootAwaited.st \in {"threw", "rejected"})
  /\ [](\A op \in {"init", "initThreadPool", "wasm_start"} :
          Cardinality(InvocationsIn(bootLog, op)) <= 1)
  /\ [](unhandled # << >> =>
          (bootOutcome.st = "rejected" /\ unhandled = <<bootOutcome.val>>))
  /\ (bootOutcome.st = "rejected") ~> (unhandled # << >>)

\* the pool start was rejected and the rejection was reported as unhandled
C17_Witness ==
  /\ bootAwaited.op = "initThreadPool"
  /\ bootAwaited.st = "rejected"
  /\ bootOutcome.st = "rejected"
  /\ unhandled = <<bootAwaited.val>>

====
